---- MODULE Spec2Model ----
(***************************************************************************)
(* Model of lib/types.c of ipset: the registry of set types (typelist),    *)
(* the userspace cache of sets (setlist) and the type resolution done by   *)
(* ipset_type_get.                                                          *)
(*                                                                         *)
(* Linked lists are sequences in list order (head first).  A struct        *)
(* ipset_type is a record; its address is the field id.  A struct ipset    *)
(* keeps the address of its type in the field type.  Set names and type    *)
(* names are shorter than IPSET_MAXNAMELEN, so ipset_strncpy copies them   *)
(* whole.  The session belongs to the caller: its data (family and type)   *)
(* enters a call as an argument and leaves it in the record of the call.   *)
(* The variable last records the most recent call: its arguments, what it  *)
(* returned and, for ipset_type_get, the reply of the kernel and the       *)
(* number of calls of ipset_cmd.                                            *)
(***************************************************************************)
EXTENDS Integers, Sequences, FiniteSets, TLC

VARIABLES typelist, setlist, last

vars == <<typelist, setlist, last>>

(* ------------------------------ bounds -------------------------------- *)
MaxTypes == 3
MaxSets == 3
MaxRev == 2
MaxEntrySets == 2

(* ----------------------------- value sets ----------------------------- *)
NULL == "NULL"

Families == {"AF_UNSPEC", "AF_INET", "AF_INET6", "AF_INET46"}

Revisions == 0..MaxRev

TypeNames == {"hash:ip", "list:set"}

AliasOf(name) == IF name = "hash:ip" THEN <<"iphash">> ELSE <<>>

SetNames == {"a", "b"}

(* the address of the n-th struct ipset_type handed to ipset_type_add *)
TypeAddr(n) == "type" \o ToString(n)

(* the set types a caller may hand to ipset_type_add *)
TypeArgs(names, families) ==
  { [name |-> n, alias |-> AliasOf(n), family |-> f, revision |-> r,
     kernel_check |-> "IPSET_KERNEL_CHECK_NEEDED"] :
       n \in names, f \in families, r \in Revisions }

(* the set types of a library, each in its own struct ipset_type *)
TypeStruct(id, name, family, revision) ==
  [id |-> id, name |-> name, alias |-> AliasOf(name), family |-> family,
   revision |-> revision, kernel_check |-> "IPSET_KERNEL_CHECK_NEEDED"]

Library ==
  { TypeStruct(TypeAddr(1), "hash:ip", "AF_INET", 0),
    TypeStruct(TypeAddr(2), "hash:ip", "AF_INET", 1),
    TypeStruct(TypeAddr(3), "hash:ip", "AF_INET", 2),
    TypeStruct(TypeAddr(4), "hash:ip", "AF_INET46", 1) }

EntryLibrary ==
  { TypeStruct(TypeAddr(1), "hash:ip", "AF_INET", 0),
    TypeStruct(TypeAddr(2), "hash:ip", "AF_INET", 1),
    TypeStruct(TypeAddr(4), "hash:ip", "AF_INET46", 1) }

(* --------------------------- sequence helpers ------------------------- *)
MAX(a, b) == IF a > b THEN a ELSE b

MIN(a, b) == IF a < b THEN a ELSE b

InsertAt(list, i, e) ==
  SubSeq(list, 1, i - 1) \o <<e>> \o SubSeq(list, i, Len(list))

RemoveAt(list, i) ==
  SubSeq(list, 1, i - 1) \o SubSeq(list, i + 1, Len(list))

(* ------------------------------ registry ------------------------------ *)
RECURSIVE type_add_loop(_, _, _)
type_add_loop(list, type, i) ==
  IF i > Len(list)
  THEN [ret |-> "0", errno |-> "none", typelist |-> <<type>> \o list]
  ELSE
    LET t == list[i] IN
    IF t.name = type.name /\ t.revision = type.revision
    THEN [ret |-> "-1", errno |-> "EEXIST", typelist |-> list]
    ELSE IF t.name = type.name /\ t.revision < type.revision
    THEN [ret |-> "0", errno |-> "none", typelist |-> InsertAt(list, i, type)]
    ELSE IF i < Len(list) /\ list[i + 1].name = type.name
            /\ list[i + 1].revision = type.revision
    THEN [ret |-> "-1", errno |-> "EEXIST", typelist |-> list]
    ELSE IF i < Len(list) /\ list[i + 1].name = type.name
            /\ list[i + 1].revision < type.revision
    THEN [ret |-> "0", errno |-> "none", typelist |-> InsertAt(list, i + 1, type)]
    ELSE type_add_loop(list, type, i + 1)

ipset_type_add(list, type) ==
  IF type.family \notin Families
  THEN [ret |-> "-1", errno |-> "none", typelist |-> list]
  ELSE type_add_loop(list, type, 1)

(* ------------------------------ set cache ----------------------------- *)
RECURSIVE cache_add_loop(_, _, _, _)
cache_add_loop(list, name, n, i) ==
  IF i >= Len(list)
  THEN [ret |-> "0", setlist |-> Append(list, n)]
  ELSE IF name = list[i].name
  THEN [ret |-> "-EEXIST", setlist |-> list]
  ELSE cache_add_loop(list, name, n, i + 1)

ipset_cache_add(list, name, type, family, malloc_ok) ==
  LET n == [name |-> name, type |-> type, family |-> family] IN
  IF ~malloc_ok
  THEN [ret |-> "-ENOMEM", setlist |-> list]
  ELSE IF list = <<>>
  THEN [ret |-> "0", setlist |-> <<n>>]
  ELSE cache_add_loop(list, name, n, 1)

(* index of the first node of the list with the given name, 0 when none *)
RECURSIVE cache_find(_, _, _)
cache_find(list, name, i) ==
  IF i > Len(list) THEN 0
  ELSE IF list[i].name = name THEN i
  ELSE cache_find(list, name, i + 1)

(* the flush frees from setlist->next on and keeps the head *)
ipset_cache_del_keep_head(list, name) ==
  IF name = NULL
  THEN [ret |-> "0", setlist |-> SubSeq(list, 1, MIN(1, Len(list)))]
  ELSE LET match == cache_find(list, name, 1) IN
       IF match = 0
       THEN [ret |-> "-EEXIST", setlist |-> list]
       ELSE [ret |-> "0", setlist |-> RemoveAt(list, match)]

(* every node that carries the name is unlinked *)
ipset_cache_del_all_named(list, name) ==
  IF name = NULL
  THEN [ret |-> "0", setlist |-> <<>>]
  ELSE LET named(s) == s.name # name IN
       IF cache_find(list, name, 1) = 0
       THEN [ret |-> "-EEXIST", setlist |-> list]
       ELSE [ret |-> "0", setlist |-> SelectSeq(list, named)]

ipset_cache_del(list, name) ==
  IF name = NULL
  THEN [ret |-> "0", setlist |-> <<>>]
  ELSE LET match == cache_find(list, name, 1) IN
       IF match = 0
       THEN [ret |-> "-EEXIST", setlist |-> list]
       ELSE [ret |-> "0", setlist |-> RemoveAt(list, match)]

(* a set that carries the new name makes the call fail *)
ipset_cache_rename_checked(list, from, to) ==
  LET s == cache_find(list, from, 1) IN
  IF s = 0 \/ cache_find(list, to, 1) # 0
  THEN [ret |-> "-EEXIST", setlist |-> list]
  ELSE [ret |-> "0", setlist |-> [list EXCEPT ![s].name = to]]

ipset_cache_rename(list, from, to) ==
  LET s == cache_find(list, from, 1) IN
  IF s = 0
  THEN [ret |-> "-EEXIST", setlist |-> list]
  ELSE [ret |-> "0", setlist |-> [list EXCEPT ![s].name = to]]

ipset_cache_swap(list, from, to) ==
  LET a == cache_find(list, from, 1)
      b == cache_find(list, to, 1)
  IN IF a # 0 /\ b # 0
     THEN [ret |-> "0",
           setlist |-> [[list EXCEPT ![a].name = to] EXCEPT ![b].name = from]]
     ELSE [ret |-> "-EEXIST", setlist |-> list]

ipset_cache_fini(list) == <<>>

(* ------------------------------ resolver ------------------------------ *)
(* the family of the session is not compared *)
MATCH_FAMILY_any(type, f) == TRUE

MATCH_FAMILY(type, f) ==
  f = "AF_UNSPEC" \/ type.family = f \/ type.family = "AF_INET46"

ipset_match_typename(name, type) ==
  \/ name = type.name
  \/ \E i \in DOMAIN type.alias : name = type.alias[i]

(* the struct ipset_type at the given address *)
TypeAt(list, addr) == CHOOSE t \in { list[i] : i \in DOMAIN list } : t.id = addr

(* tmin is taken from every later match, whatever its family *)
RECURSIVE create_scan_any_family(_, _, _, _, _)
create_scan_any_family(list, typename, family, i, acc) ==
  IF i > Len(list) THEN acc
  ELSE
    LET t == list[i] IN
    IF t.kernel_check = "IPSET_KERNEL_MISMATCH"
    THEN create_scan_any_family(list, typename, family, i + 1, acc)
    ELSE IF ipset_match_typename(typename, t) /\ MATCH_FAMILY(t, family)
    THEN IF acc.match = 0
         THEN create_scan_any_family(list, typename, family, i + 1,
                          [match |-> i, tmin |-> acc.tmin, tmax |-> t.revision])
         ELSE create_scan_any_family(list, typename, family, i + 1,
                          [acc EXCEPT !.tmin = t.revision])
    ELSE create_scan_any_family(list, typename, family, i + 1, acc)

(* the loop of create_type_get over typelist: match is the index of the    *)
(* matching node (0 for NULL), tmin and tmax as the loop leaves them       *)
RECURSIVE create_scan(_, _, _, _, _)
create_scan(list, typename, family, i, acc) ==
  IF i > Len(list) THEN acc
  ELSE
    LET t == list[i] IN
    IF t.kernel_check = "IPSET_KERNEL_MISMATCH"
    THEN create_scan(list, typename, family, i + 1, acc)
    ELSE IF ipset_match_typename(typename, t) /\ MATCH_FAMILY(t, family)
    THEN IF acc.match = 0
         THEN create_scan(list, typename, family, i + 1,
                          [match |-> i, tmin |-> acc.tmin, tmax |-> t.revision])
         ELSE IF t.family = list[acc.match].family
         THEN create_scan(list, typename, family, i + 1,
                          [acc EXCEPT !.tmin = t.revision])
         ELSE create_scan(list, typename, family, i + 1, acc)
    ELSE create_scan(list, typename, family, i + 1, acc)

(* the set type was found compatible with the kernel by an earlier call:  *)
(* always asks the kernel again                                             *)
kernel_checked_never(match) == FALSE

(* the test before "goto found" in create_type_get *)
kernel_checked(match) == match.kernel_check = "IPSET_KERNEL_OK"

(* the assignment marks the set type and unmarks the other ones *)
mark_kernel_ok_only(list, i) ==
  [j \in DOMAIN list |->
     [list[j] EXCEPT !.kernel_check =
        IF j = i THEN "IPSET_KERNEL_OK" ELSE "IPSET_KERNEL_CHECK_NEEDED"]]

(* the assignment marks the set types after the chosen one unsupported *)
mark_kernel_ok_rest_mismatch(list, i) ==
  [j \in DOMAIN list |->
     [list[j] EXCEPT !.kernel_check =
        IF j = i THEN "IPSET_KERNEL_OK"
        ELSE IF j > i THEN "IPSET_KERNEL_MISMATCH" ELSE @]]

(* the assignment moves the chosen set type to the head of the list *)
mark_kernel_ok_to_front(list, i) ==
  <<[list[i] EXCEPT !.kernel_check = "IPSET_KERNEL_OK"]>> \o RemoveAt(list, i)

(* match->kernel_check = IPSET_KERNEL_OK on the node at position i *)
mark_kernel_ok(list, i) ==
  [list EXCEPT ![i].kernel_check = "IPSET_KERNEL_OK"]

(* session data holds family and type; kernel is the outcome of            *)
(* ipset_cmd(session, IPSET_CMD_TYPE, 0) should the code call it           *)
create_type_get(list, data, typename, kernel) ==
  LET family == data.family
      scan == create_scan(list, typename, family, 1,
                          [match |-> 0, tmin |-> 0, tmax |-> 0])
      tmin == scan.tmin
      tmax == scan.tmax
  IN
  IF scan.match = 0
  THEN [ret |-> NULL, err |-> "unknown settype", ncmd |-> 0,
        typelist |-> list, data |-> data]
  ELSE
    LET match == list[scan.match]
        data1 == IF family = "AF_UNSPEC" /\ match.family # "AF_UNSPEC"
                 THEN [data EXCEPT !.family =
                         IF match.family = "AF_INET46" THEN "AF_INET"
                         ELSE match.family]
                 ELSE data
        kmax == kernel.revision
        kmin == IF kernel.has_min THEN kernel.revision_min ELSE kmax
    IN
    IF kernel_checked(match)
    THEN [ret |-> match.id, err |-> "none", ncmd |-> 0,
          typelist |-> list, data |-> [data1 EXCEPT !.type = match.id]]
    ELSE IF ~kernel.ok
    THEN [ret |-> NULL, err |-> "ipset_cmd", ncmd |-> 1,
          typelist |-> list, data |-> data1]
    ELSE IF MAX(tmin, kmin) > MIN(tmax, kmax)
    THEN IF kmin > tmax
         THEN [ret |-> NULL, err |-> "upgrade library", ncmd |-> 1,
               typelist |-> list, data |-> data1]
         ELSE [ret |-> NULL, err |-> "upgrade kernel", ncmd |-> 1,
               typelist |-> list, data |-> data1]
    ELSE [ret |-> match.id, err |-> "none", ncmd |-> 1,
          typelist |-> mark_kernel_ok(list, scan.match),
          data |-> [data1 EXCEPT !.type = match.id]]

set_family_and_type(data, match, family) ==
  [family |-> IF family = "AF_UNSPEC" /\ match.family # "AF_UNSPEC"
              THEN IF match.family = "AF_INET46" THEN "AF_INET"
                   ELSE match.family
              ELSE data.family,
   type |-> match.id]

(* the loop compares the name with ipset_match_typename, aliases included *)
RECURSIVE adt_scan_alias(_, _, _, _, _)
adt_scan_alias(list, typename, family, revision, i) ==
  IF i > Len(list) THEN 0
  ELSE
    LET t == list[i] IN
    IF t.kernel_check = "IPSET_KERNEL_MISMATCH"
    THEN adt_scan_alias(list, typename, family, revision, i + 1)
    ELSE IF ipset_match_typename(typename, t) /\ MATCH_FAMILY(t, family)
            /\ revision = t.revision
    THEN i
    ELSE adt_scan_alias(list, typename, family, revision, i + 1)

(* the loop of adt_type_get over typelist: index of the match, 0 for NULL  *)
RECURSIVE adt_scan(_, _, _, _, _)
adt_scan(list, typename, family, revision, i) ==
  IF i > Len(list) THEN 0
  ELSE
    LET t == list[i] IN
    IF t.kernel_check = "IPSET_KERNEL_MISMATCH"
    THEN adt_scan(list, typename, family, revision, i + 1)
    ELSE IF typename = t.name /\ MATCH_FAMILY(t, family)
            /\ revision = t.revision
    THEN i
    ELSE adt_scan(list, typename, family, revision, i + 1)

(* the walk starts at setlist->next *)
adt_cache_lookup_from_next(cache, setname) == cache_find(cache, setname, 2)

(* the loop of adt_type_get over setlist: index of the set, 0 when absent  *)
adt_cache_lookup(cache, setname) == cache_find(cache, setname, 1)

(* the return value of ipset_cmd is not tested: a failed query falls       *)
(* through to the scan with what the session data holds                     *)
adt_type_get_unchecked_cmd(list, cache, data, setname, kernel, garbage) ==
  LET s == adt_cache_lookup(cache, setname) IN
  IF s # 0
  THEN LET match == TypeAt(list, cache[s].type) IN
       [ret |-> match.id, err |-> "none", ncmd |-> 0, typelist |-> list,
        data |-> set_family_and_type(data, match, garbage)]
  ELSE
    LET data1 == [data EXCEPT !.family = kernel.family]
        family == data1.family
        m == adt_scan(list, kernel.typename, family, kernel.revision, 1)
    IN
    IF m = 0
    THEN [ret |-> NULL, err |-> "kernel-library incompatibility", ncmd |-> 1,
          typelist |-> list, data |-> data1]
    ELSE [ret |-> list[m].id, err |-> "none", ncmd |-> 1,
          typelist |-> mark_kernel_ok(list, m),
          data |-> set_family_and_type(data1, list[m], family)]

(* kernel is the outcome of ipset_cmd(session, IPSET_CMD_HEADER, 0) should *)
(* the code call it; garbage is the value the uninitialized local family   *)
(* holds when the set is found in the cache                                *)
adt_type_get(list, cache, data, setname, kernel, garbage) ==
  LET s == adt_cache_lookup(cache, setname) IN
  IF s # 0
  THEN LET match == TypeAt(list, cache[s].type) IN
       [ret |-> match.id, err |-> "none", ncmd |-> 0, typelist |-> list,
        data |-> set_family_and_type(data, match, garbage)]
  ELSE IF ~kernel.ok
  THEN [ret |-> NULL, err |-> "ipset_cmd", ncmd |-> 1, typelist |-> list,
        data |-> data]
  ELSE
    LET data1 == [data EXCEPT !.family = kernel.family]
        family == data1.family
        m == adt_scan(list, kernel.typename, family, kernel.revision, 1)
    IN
    IF m = 0
    THEN [ret |-> NULL, err |-> "kernel-library incompatibility", ncmd |-> 1,
          typelist |-> list, data |-> data1]
    ELSE [ret |-> list[m].id, err |-> "none", ncmd |-> 1,
          typelist |-> mark_kernel_ok(list, m),
          data |-> set_family_and_type(data1, list[m], family)]

NoReply ==
  [ok |-> FALSE, typename |-> NULL, family |-> "AF_UNSPEC", revision |-> 0,
   has_min |-> FALSE, revision_min |-> 0]

(* the function the switch of ipset_type_get calls for a command *)
type_get_case(cmd) ==
  CASE cmd = "IPSET_CMD_CREATE" -> "create_type_get"
    [] cmd \in {"IPSET_CMD_ADD", "IPSET_CMD_DEL", "IPSET_CMD_TEST"} ->
         "adt_type_get"
    [] OTHER -> "none"

ipset_type_get(list, cache, data, cmd, name, kernel, garbage) ==
  CASE type_get_case(cmd) = "create_type_get" ->
         [call |-> "create_type_get"] @@
         create_type_get(list, data, name, kernel)
    [] type_get_case(cmd) = "adt_type_get" ->
         [call |-> "adt_type_get"] @@
         adt_type_get(list, cache, data, name, kernel, garbage)
    [] OTHER -> [call |-> "none", ret |-> NULL, err |-> "none", ncmd |-> 0,
                 typelist |-> list, data |-> data]

Init ==
  /\ typelist = <<>>
  /\ setlist = <<>>
  /\ last = [op |-> "none"]

Registered(list) == { list[i].id : i \in DOMAIN list }

(* ipset_type_add called with a struct ipset_type that is not in the list *)
TypeAdd(types) ==
  /\ \E type \in types :
       /\ type.id \notin Registered(typelist)
       /\ \E r \in {ipset_type_add(typelist, type)} :
            /\ typelist' = r.typelist
            /\ last' = [op |-> "type_add", ret |-> r.ret, errno |-> r.errno,
                        type |-> type]
  /\ UNCHANGED setlist

(* any set type, in a fresh struct ipset_type *)
Register ==
  /\ Len(typelist) < MaxTypes
  /\ TypeAdd({ [id |-> TypeAddr(Len(typelist) + 1)] @@ a :
                 a \in TypeArgs(TypeNames, {"AF_INET", "AF_INET6"}) })

NextRegistry == Register

SpecRegistry == Init /\ [][NextRegistry]_vars

(* --------------------------- registry claims -------------------------- *)
SameNameRev(t, u) == t.name = u.name /\ t.revision = u.revision

NoDuplicateRevision ==
  \A i, j \in DOMAIN typelist : i # j => ~SameNameRev(typelist[i], typelist[j])

(* C1: registering a descriptor whose (name, revision) is already          *)
(* registered fails with EEXIST and leaves the registry unchanged, hence    *)
(* no two registered descriptors ever share (name, revision).               *)
C1_DuplicateRevisionRejected ==
  /\ [][ (last'.op = "type_add"
          /\ \E i \in DOMAIN typelist : SameNameRev(typelist[i], last'.type))
         => (last'.ret = "-1" /\ last'.errno = "EEXIST" /\ typelist' = typelist)
       ]_vars
  /\ []NoDuplicateRevision

(* C2: descriptors sharing a name are contiguous in the registry and in     *)
(* strictly descending revision order, whatever the order of registration.  *)
C2_ContiguousDescending ==
  NoDuplicateRevision =>
    \A i, j \in DOMAIN typelist :
      (i < j /\ typelist[i].name = typelist[j].name) =>
        /\ typelist[i].revision > typelist[j].revision
        /\ \A k \in i..j : typelist[k].name = typelist[i].name

(* ---------------------------- cache actions --------------------------- *)
CacheAddOf(types, families, max) ==
  /\ Len(setlist) < max
  /\ \E name \in SetNames, type \in types, family \in families,
        malloc_ok \in BOOLEAN :
       \E r \in {ipset_cache_add(setlist, name, type, family, malloc_ok)} :
       /\ setlist' = r.setlist
       /\ last' = [op |-> "cache_add", ret |-> r.ret, name |-> name,
                   type |-> type, family |-> family]
  /\ UNCHANGED typelist

CacheDel ==
  /\ \E name \in SetNames \cup {NULL} :
       \E r \in {ipset_cache_del(setlist, name)} :
       /\ setlist' = r.setlist
       /\ last' = [op |-> "cache_del", ret |-> r.ret, name |-> name,
                   before |-> Len(setlist),
                   after_flush |-> (last.op = "cache_del" /\ last.name = NULL)]
  /\ UNCHANGED typelist

CacheRename ==
  /\ \E from \in SetNames, to \in SetNames :
       \E r \in {ipset_cache_rename(setlist, from, to)} :
       /\ setlist' = r.setlist
       /\ last' = [op |-> "cache_rename", ret |-> r.ret, from |-> from,
                   to |-> to]
  /\ UNCHANGED typelist

CacheSwap ==
  /\ \E from \in SetNames, to \in SetNames :
       \E r \in {ipset_cache_swap(setlist, from, to)} :
       /\ setlist' = r.setlist
       /\ last' = [op |-> "cache_swap", ret |-> r.ret, from |-> from,
                   to |-> to]
  /\ UNCHANGED typelist

CacheFini ==
  /\ setlist' = ipset_cache_fini(setlist)
  /\ last' = [op |-> "cache_fini"]
  /\ UNCHANGED typelist

(* cache calls with the addresses of two set types *)
CacheAdd ==
  CacheAddOf({TypeAddr(1), TypeAddr(2)}, {"AF_INET", "AF_INET6"}, MaxSets)

NextCache == CacheAdd \/ CacheDel \/ CacheRename \/ CacheSwap \/ CacheFini

SpecCache == Init /\ [][NextCache]_vars

(* ----------------------------- cache claims --------------------------- *)
CacheNames(list) == { list[i].name : i \in DOMAIN list }

(* C3: cacheAdd of a name already present in the cache fails with EEXIST    *)
(* and leaves the cache unchanged (the allocation of the node succeeding).  *)
C3_AddExistingRejected ==
  [][ (last'.op = "cache_add" /\ last'.ret # "-ENOMEM"
       /\ last'.name \in CacheNames(setlist))
      => (last'.ret = "-EEXIST" /\ setlist' = setlist) ]_vars

(* C4: the cache holds at most one entry per set name.                      *)
C4_OneEntryPerName ==
  \A i, j \in DOMAIN setlist : i # j => setlist[i].name # setlist[j].name

Untagged(list) ==
  [i \in DOMAIN list |-> [type |-> list[i].type, family |-> list[i].family]]

(* C5: where cacheSwap(a, b) succeeds, a second cacheSwap(a, b) succeeds    *)
(* and restores every name; type, family, count and order never change.    *)
C5_SwapInvolution ==
  \A a \in SetNames, b \in SetNames :
    LET r1 == ipset_cache_swap(setlist, a, b)
        r2 == ipset_cache_swap(r1.setlist, a, b)
    IN r1.ret = "0" =>
         /\ r2.ret = "0"
         /\ r2.setlist = setlist
         /\ Untagged(r1.setlist) = Untagged(setlist)

(* C9: cacheDel(NULL) empties the cache and returns 0; a cacheDel(name)     *)
(* right after it fails with EEXIST (not found) and leaves the cache empty. *)
C9_FlushThenDelete ==
  /\ (last.op = "cache_del" /\ last.name = NULL)
       => (last.ret = "0" /\ setlist = <<>>)
  /\ (last.op = "cache_del" /\ last.name # NULL /\ last.after_flush)
       => (last.ret = "-EEXIST" /\ setlist = <<>>)

C9_Witness ==
  /\ last.op = "cache_del" /\ last.name # NULL /\ last.after_flush
  /\ last.ret = "-EEXIST"

(* the list without its entry at position i, the other entries in order *)
Without(list, i) ==
  [j \in 1..(Len(list) - 1) |-> IF j < i THEN list[j] ELSE list[j + 1]]

(* C16: cacheDel of a name the cache holds returns 0 and removes exactly    *)
(* one entry of that name, the other entries keeping name, type, family and *)
(* order; cacheDel of a name the cache does not hold fails with EEXIST (not *)
(* found) and leaves the cache unchanged.                                   *)
C16_DeleteOneEntry ==
  [][ (last'.op = "cache_del" /\ last'.name # NULL)
      => IF last'.name \in CacheNames(setlist)
         THEN /\ last'.ret = "0"
              /\ \E i \in DOMAIN setlist :
                   /\ setlist[i].name = last'.name
                   /\ setlist' = Without(setlist, i)
         ELSE /\ last'.ret = "-EEXIST"
              /\ setlist' = setlist ]_vars

(* an entry removed from a cache of three, an entry of another name kept    *)
(* before one of the same name                                              *)
C16_Witness ==
  /\ last.op = "cache_del" /\ last.name # NULL /\ last.ret = "0"
  /\ last.before = 3
  /\ Len(setlist) = 2
  /\ setlist[1].name # last.name
  /\ setlist[2].name = last.name

(* C17: cacheRename(from, to) with from in the cache returns 0 and changes  *)
(* the name of one entry named from to to, its type, family and position    *)
(* and every other entry unchanged, also when another entry is named to;    *)
(* with from absent it fails with EEXIST (not found) and leaves the cache   *)
(* unchanged.                                                               *)
C17_RenameInPlace ==
  [][ last'.op = "cache_rename"
      => IF last'.from \in CacheNames(setlist)
         THEN /\ last'.ret = "0"
              /\ \E i \in DOMAIN setlist :
                   /\ setlist[i].name = last'.from
                   /\ setlist' = [setlist EXCEPT ![i].name = last'.to]
         ELSE /\ last'.ret = "-EEXIST"
              /\ setlist' = setlist ]_vars

(* a rename to a name another entry carries: the cache of two entries holds *)
(* the new name twice and the old name no more                              *)
C17_Witness ==
  /\ last.op = "cache_rename" /\ last.ret = "0" /\ last.from # last.to
  /\ Len(setlist) = 2
  /\ \A i \in 1..2 : setlist[i].name = last.to
  /\ setlist[1].type # setlist[2].type
(* --------------------------- resolver actions ------------------------- *)
KernelRevisions == 0..(MaxRev + 1)

(* outcomes of ipset_cmd(session, IPSET_CMD_TYPE, 0) *)
KernelTypeReplies ==
  {NoReply} \cup
  { [ok |-> TRUE, typename |-> NULL, family |-> "AF_UNSPEC", revision |-> kmax,
     has_min |-> TRUE, revision_min |-> kmin] :
      kmax \in KernelRevisions, kmin \in KernelRevisions } \cup
  { [ok |-> TRUE, typename |-> NULL, family |-> "AF_UNSPEC", revision |-> kmax,
     has_min |-> FALSE, revision_min |-> 0] : kmax \in KernelRevisions }

(* outcomes of ipset_cmd(session, IPSET_CMD_HEADER, 0) *)
KernelHeaderReplies ==
  {NoReply} \cup
  { [ok |-> TRUE, typename |-> n, family |-> f, revision |-> r,
     has_min |-> FALSE, revision_min |-> 0] :
      n \in {"hash:ip", "iphash"}, f \in {"AF_INET", "AF_INET6"},
      r \in Revisions }

(* ipset_type_get called with a session whose data holds family and type.  *)
(* Commands that take the same case of the switch give the same step, one  *)
(* of them is evaluated.  The reply of the kernel is drawn only when the    *)
(* call reaches ipset_cmd, the value of the uninitialized local only when   *)
(* the call reads it.                                                       *)
TypeGet(cmds, names, families, types, replies, garbages) ==
  /\ \E call \in { type_get_case(c) : c \in cmds } :
     \E cmd \in { CHOOSE c \in cmds : type_get_case(c) = call } :
     \E name \in names, family \in families, type \in types :
       \E r0 \in {ipset_type_get(typelist, setlist,
                                 [family |-> family, type |-> type],
                                 cmd, name, NoReply, "AF_UNSPEC")} :
       \E kernel \in (IF r0.ncmd = 0 THEN {NoReply} ELSE replies),
          garbage \in (IF r0.ncmd = 0 THEN garbages ELSE {"AF_UNSPEC"}) :
       \E r \in {ipset_type_get(typelist, setlist,
                                [family |-> family, type |-> type],
                                cmd, name, kernel, garbage)} :
          /\ typelist' = r.typelist
          /\ last' = [op |-> "type_get", call |-> r.call, name |-> name,
                      data_in |-> [family |-> family, type |-> type],
                      data |-> r.data, ret |-> r.ret,
                      err |-> r.err, ncmd |-> r.ncmd, kernel |-> kernel]
  /\ UNCHANGED setlist

NegotiateCreate ==
  TypeGet({"IPSET_CMD_CREATE", "IPSET_CMD_NONE"},
          {"hash:ip", "iphash", "list:set"},
          {"AF_UNSPEC", "AF_INET", "AF_INET6"}, {NULL, TypeAddr(1)},
          { k \in KernelTypeReplies : k.has_min => k.revision_min <= k.revision },
          {"AF_UNSPEC"})

RegisterLib == TypeAdd(Library)

NextCreate == RegisterLib \/ NegotiateCreate

SpecCreate == Init /\ [][NextCreate]_vars

(* values the uninitialized local family of adt_type_get may hold *)
Uninitialized == {"AF_UNSPEC", "AF_INET", "AF_INET6"}

ADT == {"IPSET_CMD_ADD", "IPSET_CMD_DEL", "IPSET_CMD_TEST"}

NegotiateEntry ==
  TypeGet(ADT, SetNames, {"AF_UNSPEC", "AF_INET"}, {NULL},
          KernelHeaderReplies, Uninitialized)

RegisterFew == TypeAdd(EntryLibrary)

(* the caller caches a set with a registered set type *)
CacheAddResolved ==
  CacheAddOf({ typelist[i].id : i \in DOMAIN typelist },
             {"AF_INET", "AF_INET6"}, MaxEntrySets)

NextEntry == RegisterFew \/ CacheAddResolved \/ CacheDel \/ NegotiateEntry

SpecEntry == Init /\ [][NextEntry]_vars

(* --------------------------- resolver claims -------------------------- *)
AliasSet(t) == { t.alias[i] : i \in DOMAIN t.alias }

(* a descriptor serves a typename and a session family *)
Serves(t, typename, family) ==
  /\ typename \in {t.name} \cup AliasSet(t)
  /\ family = "AF_UNSPEC" \/ t.family \in {family, "AF_INET46"}

(* indices of the descriptors the scans of the registry consider *)
Candidates(list, typename, family) ==
  { i \in DOMAIN list : /\ list[i].kernel_check # "IPSET_KERNEL_MISMATCH"
                        /\ Serves(list[i], typename, family) }

CreateCall == last.op = "type_get" /\ last.call = "create_type_get"

EntryCall == last.op = "type_get" /\ last.call = "adt_type_get"

(* C7: negotiateForCreate with no registered descriptor serving the        *)
(* typename and family fails with unknown settype, asks the kernel nothing  *)
(* and changes neither a kernel_check nor the family or type of the session *)
C7_UnknownTypeNoQuery ==
  [][ (CreateCall'
       /\ \A i \in DOMAIN typelist :
            ~Serves(typelist[i], last'.name, last'.data_in.family))
      => /\ last'.ret = NULL
         /\ last'.err = "unknown settype"
         /\ last'.ncmd = 0
         /\ typelist' = typelist
         /\ last'.data = last'.data_in ]_vars

C7_Witness ==
  /\ CreateCall
  /\ last.err = "unknown settype"
  /\ \E i \in DOMAIN typelist : last.name \in {typelist[i].name} \cup AliasSet(typelist[i])
  /\ \A i \in DOMAIN typelist :
       ~Serves(typelist[i], last.name, last.data_in.family)

(* C8: when the setname of the session is in the cache, negotiateForEntry   *)
(* succeeds without a call of the transport.                                *)
C8_CacheHitNoTransport ==
  (EntryCall /\ last.name \in CacheNames(setlist))
    => (last.ret # NULL /\ last.err = "none" /\ last.ncmd = 0)

C8_Witness ==
  /\ EntryCall
  /\ Len(setlist) = 2
  /\ setlist[2].name = last.name
  /\ setlist[1].name # last.name
  /\ last.ret = setlist[2].type

Larger(a, b) == IF a >= b THEN a ELSE b

Smaller(a, b) == IF a <= b THEN a ELSE b

KernelMax == last.kernel.revision

KernelMin ==
  IF last.kernel.has_min THEN last.kernel.revision_min ELSE last.kernel.revision

(* the registry holds exactly two unchecked revisions of one type and one  *)
(* family                                                                   *)
TwoRevisions(list) ==
  /\ Len(list) = 2
  /\ list[1].name = list[2].name
  /\ list[1].family = list[2].family
  /\ list[1].revision # list[2].revision
  /\ \A i \in 1..2 : list[i].kernel_check = "IPSET_KERNEL_CHECK_NEEDED"

HiIndex(list) == IF list[1].revision > list[2].revision THEN 1 ELSE 2

LoIndex(list) == 3 - HiIndex(list)

(* C6: with exactly two revisions lo < hi of a type and family, registered  *)
(* in either order, and the kernel reporting [kmin, kmax]:                  *)
(* negotiateForCreate fails with "upgrade library" when kmin > hi, with     *)
(* "upgrade kernel" when kmax < lo, and otherwise succeeds with the         *)
(* revision hi descriptor, marked IPSET_KERNEL_OK.                          *)
C6_TwoRevisionNegotiation ==
  [][ (/\ CreateCall'
       /\ TwoRevisions(typelist)
       /\ \A i \in 1..2 :
            Serves(typelist[i], last'.name, last'.data_in.family)
       /\ last'.kernel.ok)
      => LET hi == typelist[HiIndex(typelist)].revision
             lo == typelist[LoIndex(typelist)].revision
         IN /\ KernelMin' > hi
                 => (last'.ret = NULL /\ last'.err = "upgrade library")
            /\ KernelMax' < lo
                 => (last'.ret = NULL /\ last'.err = "upgrade kernel")
            /\ (KernelMin' <= hi /\ KernelMax' >= lo)
                 => /\ last'.ret = typelist[HiIndex(typelist)].id
                    /\ typelist'[HiIndex(typelist)].kernel_check
                         = "IPSET_KERNEL_OK" ]_vars

SetMax(S) == CHOOSE x \in S : \A y \in S : y <= x

SetMin(S) == CHOOSE x \in S : \A y \in S : x <= y

(* revisions of the candidates other than b that share the family of b *)
FamilyRevisions(list, cands, b) ==
  { list[i].revision : i \in { j \in cands \ {b} : list[j].family = list[b].family } }

(* descriptors sharing a name stand in strictly descending revision order *)
Descending(list) ==
  \A i, j \in DOMAIN list :
    (i < j /\ list[i].name = list[j].name) => list[i].revision > list[j].revision

(* create_type_get changes no field of the registry but kernel_check, from *)
(* IPSET_KERNEL_CHECK_NEEDED to IPSET_KERNEL_OK, so the candidates of the   *)
(* call are those of the state it leaves.                                   *)
QueriedKernel == CreateCall /\ last.ncmd = 1 /\ last.kernel.ok

(* C10 as stated: bestMatch has the highest revision of the candidates and  *)
(* minRevision is the second-highest revision of its family (0 when there   *)
(* is none); a negotiateForCreate that queried the kernel succeeds iff      *)
(* max(minRevision, kernelMin) <= min(bestMatch.revision, kernelMax).       *)
(* Stated for the registries in descending revision order, where the first  *)
(* candidate is the one of the highest revision.                            *)
C10_SecondHighestOverlap ==
  (QueriedKernel /\ Descending(typelist))
    => LET cands == Candidates(typelist, last.name, last.data_in.family)
           top == SetMax({ typelist[i].revision : i \in cands })
       IN \E b \in { i \in cands : typelist[i].revision = top } :
            LET revs == FamilyRevisions(typelist, cands, b)
                minRevision == IF revs = {} THEN 0 ELSE SetMax(revs)
            IN (last.ret # NULL)
                 <=> (Larger(minRevision, KernelMin) <= Smaller(top, KernelMax))

(* C10 amended: bestMatch is the first candidate in registry order and      *)
(* minRevision is the revision of the last candidate after it that shares   *)
(* its family (0 when there is none); a negotiateForCreate that queried the *)
(* kernel succeeds iff max(minRevision, kernelMin) <=                       *)
(* min(bestMatch.revision, kernelMax), and then returns bestMatch.          *)
C10_RegistryOrderOverlap ==
  QueriedKernel
    => LET cands == Candidates(typelist, last.name, last.data_in.family)
           b == SetMin(cands)
           later == { i \in cands : i > b /\ typelist[i].family = typelist[b].family }
           minRevision == IF later = {} THEN 0
                          ELSE typelist[SetMax(later)].revision
           overlap == Larger(minRevision, KernelMin)
                        <= Smaller(typelist[b].revision, KernelMax)
       IN /\ (last.ret # NULL) <=> overlap
          /\ overlap => last.ret = typelist[b].id

(* three revisions in descending order, the kernel supporting the lowest    *)
C10_Witness ==
  /\ QueriedKernel /\ last.ret # NULL
  /\ Len(typelist) = 3
  /\ Candidates(typelist, last.name, last.data_in.family) = 1..3
  /\ \A i \in 1..2 : /\ typelist[i].revision > typelist[i + 1].revision
                     /\ typelist[i].family = typelist[i + 1].family
  /\ KernelMax < typelist[2].revision

(* the entry of the cache a lookup of the name of the last call finds *)
CachedEntry ==
  setlist[SetMin({ i \in DOMAIN setlist : setlist[i].name = last.name })]

CacheHit == EntryCall /\ last.name \in CacheNames(setlist)

(* C11: on a cache hit negotiateForEntry leaves in the session the type of  *)
(* the cached entry, and the family it writes to or leaves in the session   *)
(* is fixed by the cached entry and the session: it is the same family      *)
(* whatever a value unrelated to the entry holds.                           *)
C11_CacheHitFromEntry ==
  CacheHit
    => /\ last.data.type = CachedEntry.type
       /\ \A g \in Uninitialized :
            adt_type_get(typelist, setlist, last.data_in, last.name,
                         NoReply, g).data.family = last.data.family

(* the step is a negotiateForCreate that follows, with no other call in     *)
(* between, a negotiateForCreate for the same typename and family          *)
RepeatedCreate ==
  /\ CreateCall /\ CreateCall'
  /\ last'.name = last.name
  /\ last'.data_in.family = last.data_in.family

(* C12 as stated: when the candidate of the highest revision is already     *)
(* IPSET_KERNEL_OK, negotiateForCreate returns it and asks the kernel       *)
(* nothing; and of two negotiateForCreate calls in a row for one typename   *)
(* and family at most one gets an answer from the kernel.  Stated for the   *)
(* registries in descending revision order.                                 *)
C12_AtMostOneQuery ==
  [][ (CreateCall' /\ Descending(typelist))
      => LET cands == Candidates(typelist, last'.name, last'.data_in.family)
             best == { i \in cands :
                         \A j \in cands :
                           typelist[j].revision <= typelist[i].revision }
         IN /\ \A b \in best :
                 typelist[b].kernel_check = "IPSET_KERNEL_OK"
                   => (last'.ret = typelist[b].id /\ last'.ncmd = 0)
            /\ (RepeatedCreate /\ last.ncmd = 1 /\ last.kernel.ok)
                 => ~(last'.ncmd = 1 /\ last'.kernel.ok) ]_vars

(* C12 amended: when the first candidate in registry order is already       *)
(* IPSET_KERNEL_OK, negotiateForCreate returns it and asks the kernel       *)
(* nothing; and a negotiateForCreate that follows a successful one for the  *)
(* same typename and family returns the same set type and asks the kernel   *)
(* nothing.                                                                 *)
C12_CheckedNoQuery ==
  [][ CreateCall'
      => LET cands == Candidates(typelist, last'.name, last'.data_in.family)
         IN /\ (cands # {}
                 /\ typelist[SetMin(cands)].kernel_check = "IPSET_KERNEL_OK")
                 => /\ last'.ret = typelist[SetMin(cands)].id
                    /\ last'.err = "none"
                    /\ last'.ncmd = 0
            /\ (RepeatedCreate /\ last.ret # NULL)
                 => (last'.ret = last.ret /\ last'.ncmd = 0) ]_vars

(* a successful negotiateForCreate that asked the kernel nothing, the set   *)
(* type marked by an earlier call and a lower revision unmarked after it    *)
C12_Witness ==
  /\ CreateCall /\ last.ret # NULL /\ last.ncmd = 0
  /\ Len(typelist) >= 2
  /\ typelist[1].id = last.ret
  /\ typelist[1].kernel_check = "IPSET_KERNEL_OK"
  /\ typelist[2].kernel_check = "IPSET_KERNEL_CHECK_NEEDED"

(* the step is a negotiateForEntry that missed the cache and got the       *)
(* header of the set from the kernel                                        *)
HeaderRead == EntryCall' /\ last'.ncmd = 1 /\ last'.kernel.ok

(* C13 as stated: on a cache miss with a header from the kernel,            *)
(* negotiateForEntry succeeds iff a registered descriptor not marked        *)
(* IPSET_KERNEL_MISMATCH has the typename of the kernel as name or alias,   *)
(* matches the family and has exactly the revision of the kernel; such a    *)
(* descriptor is then marked IPSET_KERNEL_OK and is the type of the         *)
(* session; otherwise the call fails with kernel-library incompatibility    *)
(* and no kernel_check changes.                                             *)
C13_ExactMatchNameOrAlias ==
  [][ HeaderRead
      => LET exact == { i \in Candidates(typelist, last'.kernel.typename,
                                         last'.kernel.family) :
                          typelist[i].revision = last'.kernel.revision }
         IN IF exact # {}
            THEN \E i \in exact :
                   /\ last'.ret = typelist[i].id
                   /\ last'.data.type = typelist[i].id
                   /\ typelist' =
                        [typelist EXCEPT ![i].kernel_check = "IPSET_KERNEL_OK"]
            ELSE /\ last'.ret = NULL
                 /\ last'.err = "kernel-library incompatibility"
                 /\ typelist' = typelist ]_vars

(* C13 amended: the typename of the kernel is compared with the canonical   *)
(* name only, and the descriptor marked and recorded is the first exact     *)
(* match in registry order.                                                 *)
C13_ExactMatchCanonicalName ==
  [][ HeaderRead
      => LET exact == { i \in DOMAIN typelist :
                          /\ typelist[i].kernel_check # "IPSET_KERNEL_MISMATCH"
                          /\ typelist[i].name = last'.kernel.typename
                          /\ typelist[i].family
                               \in {last'.kernel.family, "AF_INET46"}
                          /\ typelist[i].revision = last'.kernel.revision }
         IN IF exact # {}
            THEN LET i == SetMin(exact)
                 IN /\ last'.ret = typelist[i].id
                    /\ last'.data.type = typelist[i].id
                    /\ typelist' =
                         [typelist EXCEPT ![i].kernel_check = "IPSET_KERNEL_OK"]
            ELSE /\ last'.ret = NULL
                 /\ last'.err = "kernel-library incompatibility"
                 /\ typelist' = typelist ]_vars

(* a header matched by a descriptor that is not the head of the registry,   *)
(* with another descriptor still unchecked                                  *)
C13_Witness ==
  /\ EntryCall /\ last.ncmd = 1 /\ last.kernel.ok /\ last.ret # NULL
  /\ Len(typelist) >= 2
  /\ typelist[1].id # last.ret
  /\ typelist[1].kernel_check = "IPSET_KERNEL_CHECK_NEEDED"
  /\ \E i \in DOMAIN typelist :
       /\ typelist[i].id = last.ret
       /\ typelist[i].kernel_check = "IPSET_KERNEL_OK"
       /\ typelist[i].revision = last.kernel.revision

(* C18: when negotiateForCreate succeeds after a query of the kernel, the   *)
(* revision of the set type it returns and marks lies within the range      *)
(* [kernelMin, kernelMax] the kernel reported, and so does the revision of  *)
(* at least one registered set type serving the typename and family, also   *)
(* when a single revision is registered.                                    *)
C18_ReturnedRevisionInKernelRange ==
  (QueriedKernel /\ last.ret # NULL)
    => /\ \E i \in DOMAIN typelist :
            /\ typelist[i].id = last.ret
            /\ typelist[i].kernel_check = "IPSET_KERNEL_OK"
            /\ KernelMin <= typelist[i].revision
            /\ typelist[i].revision <= KernelMax
       /\ \E i \in Candidates(typelist, last.name, last.data_in.family) :
            /\ KernelMin <= typelist[i].revision
            /\ typelist[i].revision <= KernelMax
(* ---------------------------- all operations -------------------------- *)
(* the loop of ipset_type_check over typelist: index of the match, 0 for   *)
(* NULL                                                                     *)
RECURSIVE type_check_scan(_, _, _, _, _)
type_check_scan(list, typename, family, revision, i) ==
  IF i > Len(list) THEN 0
  ELSE
    LET t == list[i] IN
    IF t.kernel_check = "IPSET_KERNEL_MISMATCH"
    THEN type_check_scan(list, typename, family, revision, i + 1)
    ELSE IF ipset_match_typename(typename, t) /\ MATCH_FAMILY(t, family)
            /\ t.revision = revision
    THEN i
    ELSE type_check_scan(list, typename, family, revision, i + 1)

(* typename and revision are the IPSET_OPT_TYPENAME and IPSET_OPT_REVISION  *)
(* of the session data, received from the kernel                            *)
ipset_type_check(list, data, typename, revision) ==
  LET family == data.family
      m == type_check_scan(list, typename, family, revision, 1)
  IN
  IF m = 0
  THEN [ret |-> NULL, err |-> "Kernel and userspace incompatible",
        typelist |-> list, data |-> data]
  ELSE [ret |-> list[m].id, err |-> "none", typelist |-> list,
        data |-> set_family_and_type(data, list[m], family)]

(* set types of a caller; one is handed over already marked as unsupported *)
(* by the kernel                                                            *)
CoreLibrary ==
  { TypeStruct(TypeAddr(1), "hash:ip", "AF_INET", 0),
    TypeStruct(TypeAddr(4), "hash:ip", "AF_INET46", 1),
    [TypeStruct(TypeAddr(5), "hash:ip", "AF_INET", 1)
       EXCEPT !.kernel_check = "IPSET_KERNEL_MISMATCH"] }

RegisterCore == TypeAdd(CoreLibrary)

(* the caller caches a set of a set type a negotiation resolved *)
CacheAddCore ==
  CacheAddOf({ typelist[i].id : i \in { j \in DOMAIN typelist :
                 typelist[j].kernel_check = "IPSET_KERNEL_OK" } },
             {"AF_INET"}, MaxEntrySets)

CreateCore ==
  TypeGet({"IPSET_CMD_CREATE", "IPSET_CMD_NONE"}, {"hash:ip", "list:set"},
          {"AF_UNSPEC", "AF_INET6"}, {NULL},
          { k \in KernelTypeReplies : k.has_min => k.revision_min <= k.revision },
          {"AF_UNSPEC"})

EntryCore ==
  TypeGet(ADT, SetNames, {"AF_UNSPEC"}, {NULL}, KernelHeaderReplies,
          Uninitialized)

TypeCheck ==
  /\ \E typename \in {"hash:ip", "iphash"},
        family \in {"AF_UNSPEC", "AF_INET"}, revision \in Revisions :
       \E r \in {ipset_type_check(typelist, [family |-> family, type |-> NULL],
                                  typename, revision)} :
         /\ typelist' = r.typelist
         /\ last' = [op |-> "type_check", name |-> typename,
                     revision |-> revision,
                     data_in |-> [family |-> family, type |-> NULL],
                     data |-> r.data, ret |-> r.ret, err |-> r.err]
  /\ UNCHANGED setlist

Next ==
  \/ RegisterCore
  \/ CacheAddCore
  \/ CacheDel
  \/ CacheRename
  \/ CacheSwap
  \/ CacheFini
  \/ CreateCore
  \/ EntryCore
  \/ TypeCheck

Spec == Init /\ [][Next]_vars


(* --------------------- claims over all operations --------------------- *)
(* the step is a negotiation whose query of the kernel failed *)
QueryFailed ==
  /\ CreateCall' \/ EntryCall'
  /\ last'.ncmd >= 1
  /\ ~last'.kernel.ok

(* C14: when the query of the kernel fails in negotiateForCreate or         *)
(* negotiateForEntry, the call returns NULL with the error of the transport *)
(* after exactly one ipset_cmd, no kernel_check changes, the type of the    *)
(* session is left as it was, and registry and cache are unchanged.         *)
C14_QueryFailureSurfaced ==
  [][ QueryFailed
      => /\ last'.ret = NULL
         /\ last'.err = "ipset_cmd"
         /\ last'.ncmd = 1
         /\ last'.data.type = last'.data_in.type
         /\ typelist' = typelist
         /\ setlist' = setlist ]_vars

(* a failed query of negotiateForEntry, with a set in the cache and an      *)
(* unchecked set type in the registry                                       *)
C14_Witness ==
  /\ EntryCall /\ last.ncmd = 1 /\ ~last.kernel.ok /\ last.ret = NULL
  /\ setlist # <<>>
  /\ \E i \in DOMAIN typelist :
       typelist[i].kernel_check = "IPSET_KERNEL_CHECK_NEEDED"

VersionMismatch ==
  CreateCall /\ last.err \in {"upgrade library", "upgrade kernel"}

(* C15: a set type marked IPSET_KERNEL_OK stays IPSET_KERNEL_OK over every  *)
(* step: registrations, negotiations (failing ones included), checks of the *)
(* type the kernel reported and cache operations.                           *)
C15_CompatibleStays ==
  [][ \A i \in DOMAIN typelist :
        typelist[i].kernel_check = "IPSET_KERNEL_OK"
          => \E j \in DOMAIN typelist' :
               /\ typelist'[j].id = typelist[i].id
               /\ typelist'[j].kernel_check = "IPSET_KERNEL_OK" ]_vars

(* a negotiateForCreate failed on the revisions while another set type is   *)
(* marked                                                                   *)
C15_Witness ==
  /\ VersionMismatch
  /\ \E i \in DOMAIN typelist : typelist[i].kernel_check = "IPSET_KERNEL_OK"

(* the kernel_check a set type of the caller was registered with *)
RegisteredAs(id) == (CHOOSE t \in CoreLibrary : t.id = id).kernel_check

(* C19: no operation sets a kernel_check to IPSET_KERNEL_MISMATCH: every    *)
(* set type holds the kernel_check it was registered with or                *)
(* IPSET_KERNEL_OK, so after a negotiateForCreate that failed on the        *)
(* revisions the set type it took is still unchecked and still the first    *)
(* one the scan considers.                                                  *)
C19_NeverMarkedIncompatible ==
  /\ \A i \in DOMAIN typelist :
       typelist[i].kernel_check
         \in {RegisteredAs(typelist[i].id), "IPSET_KERNEL_OK"}
  /\ VersionMismatch
       => LET cands == Candidates(typelist, last.name, last.data_in.family)
          IN /\ cands # {}
             /\ typelist[SetMin(cands)].kernel_check
                  = "IPSET_KERNEL_CHECK_NEEDED"

(* a failure on the revisions with a marked set type and one registered as  *)
(* unsupported in the registry                                              *)
C19_Witness ==
  /\ VersionMismatch
  /\ \E i \in DOMAIN typelist : typelist[i].kernel_check = "IPSET_KERNEL_OK"
  /\ \E i \in DOMAIN typelist :
       typelist[i].kernel_check = "IPSET_KERNEL_MISMATCH"

(* the fields of the set types but kernel_check, in registry order *)
Unchecked(list) ==
  [i \in DOMAIN list |-> [list[i] EXCEPT !.kernel_check = "any"]]

(* C20: negotiateForCreate, negotiateForEntry and the check of the type the *)
(* kernel reported leave the cache as it is and change no member, field or  *)
(* position in the registry but kernel_check; a negotiateForEntry that      *)
(* follows a successful one for the same uncached setname asks the kernel   *)
(* again.                                                                   *)
C20_ResolversKeepListsFixed ==
  [][ /\ last'.op \in {"type_get", "type_check"}
        => /\ setlist' = setlist
           /\ Unchecked(typelist') = Unchecked(typelist)
      /\ (EntryCall /\ last.ncmd = 1 /\ last.ret # NULL
          /\ EntryCall' /\ last'.name = last.name)
        => last'.ncmd = 1 ]_vars

(* a negotiateForEntry that missed a cache holding another set and marked a *)
(* set type that is not the head of the registry                            *)
C20_Witness ==
  /\ EntryCall /\ last.ncmd = 1 /\ last.ret # NULL
  /\ setlist # <<>>
  /\ last.name \notin CacheNames(setlist)
  /\ Len(typelist) >= 2
  /\ typelist[1].id # last.ret

====
